---- MODULE Spec2Model ----
(***************************************************************************)
(* A model of the podfeed client (podfeed/client.py, podfeed/types.py):    *)
(* the multi-file upload pipeline of PodfeedClient.upload_files (local     *)
(* validation, signed-URL acquisition, a bounded worker pool with per-file *)
(* retries, result and progress aggregation), the request validation of    *)
(* AudioGenerationRequest, the generate_audio flow that ties them, and    *)
(* the polling loop of wait_for_completion.                                *)
(***************************************************************************)
EXTENDS Integers, Sequences, FiniteSets, TLC

(* ----------------------------- bounds ---------------------------------- *)
\* largest batch of file paths handed to one call
MaxFiles == 2
\* largest max_workers drawn for a call
MaxWorkers == 2
\* largest max_retries drawn for a call
MaxRetries == 2

\* the max_retries of the calls that follow a file through its whole backoff schedule
MaxBackoffRetries == 4

\* largest timeout and largest poll_interval drawn for a wait_for_completion call,
\* in units of the clock
MaxTimeout == 4
MaxPollInterval == 3

(* ------------------------- program constants --------------------------- *)
\* client.py:464  max_size_bytes = 500 * 1024 * 1024
max_size_bytes == 524288000
\* types.py:132-137  Field(3, ge=1, le=10)
TuningMin == 1
TuningMax == 10
default_tuning == 3

None == "<None>"
OctetStream == "application/octet-stream"

VARIABLES
    harness,            \* the environment of the run: the callbacks and tuning values callers use
    pc,                 \* position of the calling (main) thread
    caller,             \* "upload_files" (called directly) or "generate_audio"
    file_paths,         \* upload_files argument
    progress_callback,  \* upload_files argument: None, or the callback's behaviour
    max_workers,        \* upload_files argument
    max_retries,        \* upload_files argument
    idx,                \* loop index of the validation loop and of the submission loop
    validated_files,    \* client.py:376
    fs_seen,            \* what _validate_file found for each path it looked at, in order
    urls_data,          \* client.py:383
    url_requests,       \* number of get_upload_urls calls made
    url_answer,         \* None, "failed", or "answered" once get_upload_urls came back
    url_payloads,       \* the "files" lists sent to /api/audios/upload-urls, in order
    futures,            \* the submitted upload tasks, by position in the batch
    work_queue,         \* the executor's FIFO queue of tasks not yet picked by a worker
    waiter,             \* as_completed's waiter: what finished before and after it was installed
    puts,               \* per file: number of PUT attempts started
    put_log,            \* every PUT started: file, signed URL, content type
    put_results,        \* per file: how each finished PUT attempt ended, in order
    sleeps,             \* per file: the backoff delays slept, in order
    gcs_uris,           \* client.py:391
    completed_uploads,  \* client.py:392
    cb_calls,           \* the progress callback's invocations: <<completed, total>>
    uf_outcome,         \* how the upload_files call ended
    error,              \* the exception that reached the outermost caller
    content_args,       \* the arguments of the caller's last InputContent(...) call
    input_content,      \* the InputContent the caller built
    request,            \* the AudioGenerationRequest the caller built
    tuning_omitted,     \* the tuning arguments the caller left out when building it
    submissions,        \* the payloads POSTed to /api/audios, in order
    vin,                \* input of the validator under check
    vout,               \* its verdict
    now,                \* time.time(), in units of the clock
    start_time,         \* client.py:539
    timeout,            \* wait_for_completion argument
    poll_interval,      \* wait_for_completion argument
    sleep_log,          \* every time.sleep of the polling loop: when it began, how long
    polls,              \* every get_task_progress call: when, and the status it reported
    wait_outcome        \* how the wait_for_completion call ended, and when

envVars == <<harness, caller>>
argVars == <<file_paths, progress_callback, max_workers, max_retries>>
valVars == <<validated_files, fs_seen>>
slotVars == <<urls_data, url_requests, url_answer, url_payloads>>
poolVars == <<futures, work_queue, waiter, puts, put_log, put_results, sleeps>>
aggVars == <<gcs_uris, completed_uploads, cb_calls>>
endVars == <<uf_outcome, error>>
requestVars == <<content_args, input_content, request, tuning_omitted, submissions>>
waitVars == <<now, start_time, timeout, poll_interval, sleep_log, polls, wait_outcome>>
checkVars == <<vin, vout, waitVars>>

vars == <<pc, idx, envVars, argVars, valVars, slotVars, poolVars, aggVars, endVars,
          requestVars, checkVars>>

(* ----------------------------- helpers --------------------------------- *)
NoError == [type |-> None, kind |-> None, path |-> 0, errors |-> {}]
\* exceptions.py:4-7
PodfeedError(kind, path) ==
    [type |-> "PodfeedError", kind |-> kind, path |-> path, errors |-> {}]
\* pydantic's ValidationError: the list of the errors the validators raised
ValidationError(errs) ==
    [type |-> "ValidationError", kind |-> None, path |-> 0, errors |-> errs]

Range(s) == {s[i] : i \in DOMAIN s}

\* the subsequence of s of the elements e with Test(e), in order (a list comprehension)
RECURSIVE SelectSeqBy(_, _)
SelectSeqBy(s, keep) ==
    IF s = <<>> THEN <<>>
    ELSE (IF Head(s) \in keep THEN <<Head(s)>> ELSE <<>>) \o SelectSeqBy(Tail(s), keep)

\* 2**attempt, client.py:411
RECURSIVE Pow2(_)
Pow2(n) == IF n = 0 THEN 1 ELSE 2 * Pow2(n - 1)

\* Python truthiness of an Optional[str]
Truthy(s) == s \notin {None, ""}

(* ------------------------- the file system ----------------------------- *)
\* What Path(file_path) shows when _validate_file looks at it.
FileStats ==
    { [exists |-> FALSE, is_file |-> FALSE, size |-> 0],
      [exists |-> TRUE,  is_file |-> FALSE, size |-> 0],
      [exists |-> TRUE,  is_file |-> TRUE,  size |-> 1],
      [exists |-> TRUE,  is_file |-> TRUE,  size |-> max_size_bytes + 1] }

\* What it shows of paths at the edges of the checks: a missing path, a path that is
\* not a regular file and reports a size over the cap, a file of exactly the maximum
\* size, a file one byte larger.
BoundaryFileStats ==
    { [exists |-> FALSE, is_file |-> FALSE, size |-> 0],
      [exists |-> TRUE,  is_file |-> FALSE, size |-> max_size_bytes + 1],
      [exists |-> TRUE,  is_file |-> TRUE,  size |-> max_size_bytes],
      [exists |-> TRUE,  is_file |-> TRUE,  size |-> max_size_bytes + 1] }

\* mimetypes.guess_type(file_path)[0]: decided by the path's name alone. Paths with an
\* odd number carry a known extension, the others do not.
GuessType(file_path) == IF file_path % 2 = 1 THEN "application/pdf" ELSE None

\* _validate_file refusing a file of exactly the maximum size
ValidateFileCapExclusive(file_path, stat) ==
    IF ~stat.exists THEN [ok |-> FALSE, err |-> "file_not_found", info |-> <<>>]
    ELSE IF ~stat.is_file THEN [ok |-> FALSE, err |-> "not_a_file", info |-> <<>>]
    ELSE IF stat.size >= max_size_bytes THEN [ok |-> FALSE, err |-> "too_large", info |-> <<>>]
    ELSE LET guessed == GuessType(file_path)
             content_type == IF guessed = None THEN OctetStream ELSE guessed
         IN [ok |-> TRUE, err |-> None,
             info |-> <<[path |-> file_path, contentType |-> content_type, size |-> stat.size]>>]

\* _validate_file without its size check
ValidateFileNoSizeCap(file_path, stat) ==
    IF ~stat.exists THEN [ok |-> FALSE, err |-> "file_not_found", info |-> <<>>]
    ELSE IF ~stat.is_file THEN [ok |-> FALSE, err |-> "not_a_file", info |-> <<>>]
    ELSE [ok |-> TRUE, err |-> None,
          info |-> <<[path |-> file_path, contentType |-> OctetStream, size |-> stat.size]>>]

\* client.py:439-482
_validate_file(file_path, stat) ==
    IF ~stat.exists THEN [ok |-> FALSE, err |-> "file_not_found", info |-> <<>>]
    ELSE IF ~stat.is_file THEN [ok |-> FALSE, err |-> "not_a_file", info |-> <<>>]
    ELSE IF stat.size > max_size_bytes THEN [ok |-> FALSE, err |-> "too_large", info |-> <<>>]
    ELSE LET guessed == GuessType(file_path)
             content_type == IF guessed = None THEN OctetStream ELSE guessed
         IN [ok |-> TRUE, err |-> None,
             info |-> <<[path |-> file_path, contentType |-> content_type, size |-> stat.size]>>]

(* ------------------------- the collaborator ---------------------------- *)
\* The answers get_upload_urls can bring back for n descriptors: k slots, k in 0..n+1.
\* Slot j carries its own signed URL; the object URIs are pairwise distinct, or every
\* slot repeats the same one.
SlotResponses(n) ==
    { [j \in 1..k |-> [signedUrl |-> 100 + j, gcsUri |-> IF same THEN 1 ELSE j]] :
        k \in 0..(n + 1), same \in BOOLEAN }

(* ----------------------- types.py: the validators ---------------------- *)
InputTypes == {"text", "url", "topic", "script", "file"}
Modes == {"monologue", "dialogue"}

NoFiles == [present |-> FALSE, items |-> <<>>]
FilesOf(items) == [present |-> TRUE, items |-> items]

\* An entry of InputContent.files: a str (a local path, or a gs:// URI) or bytes.
\* exists is what Path(item).exists() answers when the InputContent is built.
PathEntry(p, exists) == [kind |-> "str", path |-> p, gs |-> FALSE, exists |-> exists]
GsEntry(p) == [kind |-> "str", path |-> p, gs |-> TRUE, exists |-> FALSE]
BytesEntry(p) == [kind |-> "bytes", path |-> p, gs |-> FALSE, exists |-> FALSE]

NoInputContent == [files |-> NoFiles, url |-> None, text |-> None, topic |-> None, script |-> None]

\* str.startswith(("http://", "https://")), types.py:50
StartsWithHttp(v) == v \in {"http://x", "https://x"}

\* types.py:28-44
validate_files(v) ==
    IF ~v.present THEN "ok"
    ELSE IF Len(v.items) = 0 THEN "files_empty"
    ELSE IF \E i \in DOMAIN v.items : v.items[i].kind = "str" /\ ~v.items[i].exists
         THEN "files_not_found"
    ELSE "ok"

\* types.py:46-52
validate_url(v) ==
    IF v # None /\ ~StartsWithHttp(v) THEN "url_scheme" ELSE "ok"

\* types.py:54-57
count_provided_inputs(ic) ==
    (IF ic.files.present THEN 1 ELSE 0) + (IF ic.url # None THEN 1 ELSE 0)
    + (IF ic.text # None THEN 1 ELSE 0) + (IF ic.topic # None THEN 1 ELSE 0)
    + (IF ic.script # None THEN 1 ELSE 0)

\* types.py:156-165: input_mapping.get(input_type) is not None
ExpectedInputGiven(input_type, v) ==
    CASE input_type = "file" -> v.files.present
      [] input_type = "url" -> v.url # None
      [] input_type = "text" -> v.text # None
      [] input_type = "topic" -> v.topic # None
      [] input_type = "script" -> v.script # None
      [] OTHER -> FALSE

\* validate_input_content checking the count alone
ValidateInputCountOnly(input_type, v) ==
    IF input_type = None THEN "ok"
    ELSE IF count_provided_inputs(v) # 1 THEN "input_count"
    ELSE "ok"

\* types.py:142-170. input_type is None when info.data holds none (it failed its own check).
validate_input_content(input_type, v) ==
    IF input_type = None THEN "ok"
    ELSE IF count_provided_inputs(v) # 1 THEN "input_count"
    ELSE IF ~ExpectedInputGiven(input_type, v) THEN "input_mismatch"
    ELSE "ok"

\* validate_for_mode content with one of the two dialogue voices
ValidateForModeEitherHost(vc, mode) ==
    IF mode = "monologue"
    THEN (IF ~Truthy(vc.voice) THEN "voice_required" ELSE "ok")
    ELSE IF mode = "dialogue"
    THEN (IF ~Truthy(vc.host_voice) /\ ~Truthy(vc.cohost_voice) THEN "hosts_required" ELSE "ok")
    ELSE "ok"

\* types.py:83-92
validate_for_mode(vc, mode) ==
    IF mode = "monologue"
    THEN (IF ~Truthy(vc.voice) THEN "voice_required" ELSE "ok")
    ELSE IF mode = "dialogue"
    THEN (IF ~Truthy(vc.host_voice) \/ ~Truthy(vc.cohost_voice) THEN "hosts_required" ELSE "ok")
    ELSE "ok"

\* types.py:172-178
validate_voice_config(mode, v) ==
    IF mode # None THEN validate_for_mode(v, mode) ELSE "ok"

\* validate_read_mode refusing dialogue mode whatever read_mode is
ValidateReadModeIgnoresFlag(mode, v) ==
    IF mode # "monologue" THEN "read_mode" ELSE "ok"

\* validate_read_mode accepting everything
ValidateReadModeAlways(mode, v) == "ok"

\* types.py:180-187
validate_read_mode(mode, v) ==
    IF v.read_mode /\ mode # "monologue" THEN "read_mode" ELSE "ok"

\* a field declared without its lower bound
ValidateTuningNoFloor(name, n) ==
    IF n <= TuningMax THEN "ok" ELSE name

\* types.py:132-137: Field(3, ge=1, le=10)
validate_tuning(name, n) ==
    IF n >= TuningMin /\ n <= TuningMax THEN "ok" ELSE name

\* InputContent(...): the errors its field validators raise (types.py:8-52)
InputContentErrors(ic) == {validate_files(ic.files), validate_url(ic.url)} \ {"ok"}

\* AudioGenerationRequest(...): the errors of all its fields, validated in declaration
\* order; a validator sees in info.data only the earlier fields that passed
\* (types.py:115-187).
RequestErrors(r) ==
    LET it == IF r.input_type \in InputTypes THEN r.input_type ELSE None
        md == IF r.mode \in Modes THEN r.mode ELSE None
    IN  { IF it = None THEN "input_type" ELSE "ok",
          IF md = None THEN "mode" ELSE "ok",
          validate_input_content(it, r.input_content),
          validate_voice_config(md, r.voice_config),
          validate_read_mode(md, r.content_config),
          validate_tuning("max_workers", r.max_workers),
          validate_tuning("max_retries", r.max_retries) } \ {"ok"}

NoVoice == [voice |-> None, host_voice |-> None, cohost_voice |-> None]
NoRequest ==
    [input_type |-> None, mode |-> None, input_content |-> NoInputContent,
     voice_config |-> NoVoice, content_config |-> [read_mode |-> FALSE],
     progress_callback |-> None, max_workers |-> default_tuning,
     max_retries |-> default_tuning]

(* ----------------------- what callers hand in -------------------------- *)
OptStrings == {None, "", "x"}
UrlArgs == {None, "ftp://x", "https://x"}

\* The files lists callers build: up to MaxFiles entries; the entry at position i names
\* path i (present or missing on disk), or the gs:// URI i, or holds bytes.
EntriesAt(i) == {PathEntry(i, TRUE), PathEntry(i, FALSE), GsEntry(i), BytesEntry(i)}
FileLists ==
    UNION { { f \in [1..n -> UNION {EntriesAt(i) : i \in 1..n}] :
                \A i \in 1..n : f[i] \in EntriesAt(i) } : n \in 0..MaxFiles }
FilesArgs == {NoFiles} \cup {FilesOf(l) : l \in FileLists}

\* The InputContent arguments callers pass: any values, in at most MaxPopulated fields.
MaxPopulated == 2
InputContentArgs ==
    { ic \in [files : FilesArgs, url : UrlArgs, text : OptStrings, topic : OptStrings,
              script : OptStrings] : count_provided_inputs(ic) <= MaxPopulated }

VoiceArgs ==
    { [voice |-> "x", host_voice |-> None, cohost_voice |-> None],
      [voice |-> None, host_voice |-> "x", cohost_voice |-> "x"],
      [voice |-> "", host_voice |-> "x", cohost_voice |-> None],
      NoVoice }

\* the requests built on an InputContent ic, in the environment h
RequestArgs(h, ic) ==
    [input_type : InputTypes \cup {"bogus"}, mode : Modes \cup {"bogus"},
     input_content : {ic}, voice_config : VoiceArgs,
     content_config : [read_mode : BOOLEAN],
     progress_callback : h.callbacks, max_workers : h.workers, max_retries : h.retries]

(* --------------------------- the executor ------------------------------ *)
\* ended is the task's place in the order the tasks ended in (0: it has not ended)
NewFuture == [state |-> "new", attempt |-> 0, result |-> 0, ended |-> 0]
Tasks == DOMAIN futures
Busy == {t \in Tasks : futures[t].state \in {"running_put", "sleeping"}}
InFlight == {t \in Tasks : futures[t].state = "running_put"}
Finished == {t \in Tasks : futures[t].state \in {"finished_ok", "finished_err"}}
\* the place the task ending now takes in the order the tasks end in
EndsAs == Cardinality(Finished) + 1

\* a pool that starts a thread per task
WorkerAlwaysFree == TRUE

\* a pool that runs one task at a time whatever max_workers is
WorkerFreeSerial == Cardinality(Busy) < 1

\* ThreadPoolExecutor(max_workers): a queued task is picked up only by one of the
\* max_workers threads, each running one task at a time (client.py:413).
WorkerFree == Cardinality(Busy) < max_workers

\* a waiter that is never told of a task's end
NoteFinishedLost(t) == waiter

\* A task finishing after as_completed installed its waiter is queued on it in
\* finishing order (client.py:424).
NoteFinished(t) ==
    IF waiter.installed THEN [waiter EXCEPT !.finished = Append(@, t)] ELSE waiter

\* Callers of generate_audio that pass tuning values at the ends of the documented range
\* and next to them outside it, or leave them out.
HarnessTuning ==
    [callbacks |-> {None},
     workers |-> {TuningMin - 1, TuningMin, TuningMax, TuningMax + 1},
     retries |-> {TuningMin - 1, TuningMin, TuningMax + 1},
     omits |-> SUBSET {"max_workers", "max_retries"}, stats |-> FileStats]

\* Callers that ask for MaxBackoffRetries attempts per file, uploaded one at a time.
HarnessBackoff ==
    [callbacks |-> {None}, workers |-> {1}, retries |-> {MaxBackoffRetries}, omits |-> {{}},
     stats |-> FileStats]

\* Callers whose paths name files at the edges of the checks, uploaded one at a time.
HarnessSizes ==
    [callbacks |-> {None}, workers |-> {1}, retries |-> 1..MaxRetries, omits |-> {{}},
     stats |-> BoundaryFileStats]

(* ------------------------------ Init ----------------------------------- *)
\* Callers that keep to the documented interface: a callback that returns, and the
\* tuning values of types.py:132-137 up to the bounds.
HarnessContract ==
    [callbacks |-> {None, "returns"}, workers |-> 1..MaxWorkers, retries |-> 1..MaxRetries,
     omits |-> {{}}, stats |-> FileStats]

\* The client is constructed (client.py:33-55); nothing was called yet. at is where
\* the caller stands, inputs what a validator under check is given.
InitVars(h, at, inputs) ==
    /\ harness = h
    /\ pc = at
    /\ caller = None
    /\ file_paths = <<>>
    /\ progress_callback = None
    /\ max_workers = 3
    /\ max_retries = 3
    /\ idx = 1
    /\ validated_files = <<>>
    /\ fs_seen = <<>>
    /\ urls_data = <<>>
    /\ url_requests = 0
    /\ url_answer = None
    /\ url_payloads = <<>>
    /\ futures = <<>>
    /\ work_queue = <<>>
    /\ waiter = [installed |-> FALSE, initial |-> {}, finished |-> <<>>, yielded |-> {}]
    /\ puts = <<>>
    /\ put_log = {}
    /\ put_results = <<>>
    /\ sleeps = <<>>
    /\ gcs_uris = <<>>
    /\ completed_uploads = 0
    /\ cb_calls = <<>>
    /\ uf_outcome = [status |-> None, value |-> <<>>]
    /\ error = NoError
    /\ content_args = NoInputContent
    /\ input_content = NoInputContent
    /\ request = NoRequest
    /\ tuning_omitted = {}
    /\ submissions = <<>>
    /\ vin \in inputs
    /\ vout = None
    /\ now = 0
    /\ start_time = 0
    /\ timeout = 3600
    /\ poll_interval = 30
    /\ sleep_log = <<>>
    /\ polls = <<>>
    /\ wait_outcome = [status |-> None, value |-> None, at |-> 0]

InitWith(h) == InitVars(h, "idle", {None})

Init == InitWith(HarnessContract)

(* ----------------------- upload_files, main thread --------------------- *)
\* upload_files returns value to what called it.
UFReturn(value) ==
    /\ uf_outcome' = [status |-> "returned", value |-> value]
    /\ pc' = IF caller = "generate_audio" THEN "ga_payload" ELSE "returned"
    /\ error' = error

\* upload_files raises e; generate_audio does not catch it (client.py:146-151).
UFRaise(e) ==
    /\ uf_outcome' = [status |-> "raised", value |-> <<>>]
    /\ pc' = "raised"
    /\ error' = e

\* A caller invokes client.upload_files(file_paths, progress_callback, max_workers,
\* max_retries) directly (client.py:350-356).
CallUploadFiles ==
    /\ pc = "idle"
    /\ \E n \in 0..MaxFiles, cb \in harness.callbacks, w \in harness.workers,
          r \in harness.retries :
          /\ file_paths' = [i \in 1..n |-> i]
          /\ progress_callback' = cb
          /\ max_workers' = w
          /\ max_retries' = r
    /\ caller' = "upload_files"
    /\ pc' = "uf_entry"
    /\ UNCHANGED <<harness, idx, valVars, slotVars, poolVars, aggVars, endVars,
                   requestVars, checkVars>>

\* upload_files without its early return for an empty list
UF_EntryNoEmptyCheck ==
    /\ pc = "uf_entry"
    /\ pc' = "uf_validate"
    /\ idx' = 1
    /\ validated_files' = <<>>
    /\ UNCHANGED <<envVars, argVars, fs_seen, slotVars, poolVars, aggVars, endVars,
                   requestVars, checkVars>>

\* client.py:372-376
UF_Entry ==
    /\ pc = "uf_entry"
    /\ IF file_paths = <<>>
       THEN /\ UFReturn(<<>>)
            /\ UNCHANGED <<idx, validated_files>>
       ELSE /\ pc' = "uf_validate"
            /\ idx' = 1
            /\ validated_files' = <<>>
            /\ UNCHANGED endVars
    /\ UNCHANGED <<envVars, argVars, fs_seen, slotVars, poolVars, aggVars, requestVars,
                   checkVars>>

\* client.py:377-378: one pass of "for file_path in file_paths", or its end
UF_ValidateFile ==
    /\ pc = "uf_validate"
    /\ IF idx > Len(file_paths)
       THEN /\ pc' = "uf_get_urls"
            /\ UNCHANGED <<idx, valVars, endVars>>
       ELSE \E stat \in harness.stats :
              LET v == _validate_file(file_paths[idx], stat) IN
              /\ fs_seen' = Append(fs_seen, stat)
              /\ IF ~v.ok
                 THEN /\ UFRaise(PodfeedError(v.err, file_paths[idx]))
                      /\ UNCHANGED <<idx, validated_files>>
                 ELSE /\ validated_files' = validated_files \o v.info
                      /\ idx' = idx + 1
                      /\ pc' = "uf_validate"
                      /\ UNCHANGED endVars
    /\ UNCHANGED <<envVars, argVars, slotVars, poolVars, aggVars, requestVars, checkVars>>

\* the descriptors listed last file first
FilesMetadataReversed(files) ==
    [i \in DOMAIN files |-> [filename |-> files[Len(files) + 1 - i].path,
                             contentType |-> files[Len(files) + 1 - i].contentType,
                             size |-> files[Len(files) + 1 - i].size]]

\* client.py:381: [file_data for _, file_data in validated_files]
files_metadata(files) ==
    [i \in DOMAIN files |-> [filename |-> files[i].path,
                             contentType |-> files[i].contentType,
                             size |-> files[i].size]]

\* a check that only refuses too few slots
SlotCountTooFew(resp, files) == Len(resp) < Len(files)

\* client.py:385
SlotCountMismatch(resp, files) == Len(resp) # Len(files)

\* client.py:380-392: the one signed-URL request and the slot-count check
UF_GetUploadUrls ==
    /\ pc = "uf_get_urls"
    /\ url_requests' = url_requests + 1
    /\ url_payloads' = Append(url_payloads, files_metadata(validated_files))
    /\ \/ \* _request raised (client.py:77-89)
          /\ url_answer' = "failed"
          /\ UFRaise(PodfeedError("request_failed", 0))
          /\ UNCHANGED <<urls_data, idx, futures, puts, put_results, sleeps, gcs_uris,
                         completed_uploads>>
       \/ \E resp \in SlotResponses(Len(validated_files)) :
             /\ url_answer' = "answered"
             /\ urls_data' = resp
             /\ IF SlotCountMismatch(resp, validated_files)
                THEN /\ UFRaise(PodfeedError("slot_mismatch", 0))
                     /\ UNCHANGED <<idx, futures, puts, put_results, sleeps, gcs_uris,
                                    completed_uploads>>
                ELSE /\ gcs_uris' = <<>>
                     /\ completed_uploads' = 0
                     /\ futures' = [t \in 1..Len(validated_files) |-> NewFuture]
                     /\ puts' = [t \in 1..Len(validated_files) |-> 0]
                     /\ put_results' = [t \in 1..Len(validated_files) |-> <<>>]
                     /\ sleeps' = [t \in 1..Len(validated_files) |-> <<>>]
                     /\ idx' = 1
                     /\ pc' = "uf_submit"
                     /\ UNCHANGED endVars
    /\ UNCHANGED <<envVars, argVars, valVars, work_queue, waiter, put_log, cb_calls,
                   requestVars, checkVars>>

\* client.py:415-421: executor.submit of the idx-th (file_info, url_data) pair, or the
\* end of the comprehension
UF_Submit ==
    /\ pc = "uf_submit"
    /\ IF idx > Len(validated_files)
       THEN /\ pc' = "uf_as_completed"
            /\ UNCHANGED <<idx, futures, work_queue>>
       ELSE /\ futures' = [futures EXCEPT ![idx].state = "pending"]
            /\ work_queue' = Append(work_queue, idx)
            /\ idx' = idx + 1
            /\ pc' = "uf_submit"
    /\ UNCHANGED <<envVars, argVars, valVars, slotVars, waiter, puts, put_log, put_results,
                   sleeps, aggVars, endVars, requestVars, checkVars>>

\* client.py:424: as_completed(future_to_file) notes what has already finished and
\* installs its waiter on the rest
UF_AsCompleted ==
    /\ pc = "uf_as_completed"
    /\ waiter' = [installed |-> TRUE, initial |-> Finished, finished |-> <<>>,
                  yielded |-> {}]
    /\ pc' = "uf_collect"
    /\ UNCHANGED <<idx, envVars, argVars, valVars, slotVars, futures, work_queue, puts,
                   put_log, put_results, sleeps, aggVars, endVars, requestVars, checkVars>>

\* the callback handed the count as it was before this upload
ReportProgressStale(completed) ==
    IF progress_callback # None
    THEN Append(cb_calls, <<completed - 1, Len(validated_files)>>)
    ELSE cb_calls

\* client.py:431-432: progress_callback(completed_uploads, len(validated_files))
ReportProgress(completed) ==
    IF progress_callback # None
    THEN Append(cb_calls, <<completed, Len(validated_files)>>)
    ELSE cb_calls

\* a loop body that skips a failed upload instead of raising
CollectFutureSkipFailed(t) ==
    IF futures[t].state = "finished_ok"
    THEN /\ gcs_uris' = Append(gcs_uris, futures[t].result)
         /\ completed_uploads' = completed_uploads + 1
         /\ cb_calls' = ReportProgress(completed_uploads + 1)
         /\ pc' = "uf_collect"
         /\ UNCHANGED endVars
    ELSE /\ pc' = "uf_collect"
         /\ UNCHANGED <<aggVars, endVars>>

\* a loop body that counts and reports a file before looking at how its upload ended
CollectFutureReportsFirst(t) ==
    IF futures[t].state = "finished_ok"
    THEN /\ gcs_uris' = Append(gcs_uris, futures[t].result)
         /\ completed_uploads' = completed_uploads + 1
         /\ cb_calls' = ReportProgress(completed_uploads + 1)
         /\ pc' = "uf_collect"
         /\ UNCHANGED endVars
    ELSE /\ completed_uploads' = completed_uploads + 1
         /\ cb_calls' = ReportProgress(completed_uploads + 1)
         /\ pc' = "uf_exit_raise"
         /\ error' = PodfeedError("upload_failed", validated_files[t].path)
         /\ UNCHANGED <<gcs_uris, uf_outcome>>

\* client.py:425-435: the loop body for the future t that as_completed yields. The
\* callback is called inside the try block, so an exception it raises is caught by
\* "except Exception" like a failed upload's.
CollectFuture(t) ==
    IF futures[t].state = "finished_ok"
    THEN /\ gcs_uris' = Append(gcs_uris, futures[t].result)
         /\ completed_uploads' = completed_uploads + 1
         /\ cb_calls' = ReportProgress(completed_uploads + 1)
         /\ IF progress_callback = "raises"
            THEN /\ pc' = "uf_exit_raise"
                 /\ error' = PodfeedError("upload_failed", validated_files[t].path)
                 /\ uf_outcome' = uf_outcome
            ELSE /\ pc' = "uf_collect"
                 /\ UNCHANGED endVars
    ELSE \* future.result() re-raises the task's exception; the with block is left
         /\ pc' = "uf_exit_raise"
         /\ error' = PodfeedError("upload_failed", validated_files[t].path)
         /\ UNCHANGED <<aggVars, uf_outcome>>

\* client.py:424-435: one pass of "for future in as_completed(...)". Futures already
\* finished when as_completed was called come first, in no particular order; the
\* others follow in the order they finish.
UF_Collect ==
    /\ pc = "uf_collect"
    /\ \/ \E t \in waiter.initial :
             /\ waiter' = [waiter EXCEPT !.initial = @ \ {t}, !.yielded = @ \cup {t}]
             /\ CollectFuture(t)
       \/ /\ waiter.initial = {}
          /\ waiter.finished # <<>>
          /\ waiter' = [waiter EXCEPT !.finished = Tail(@),
                                       !.yielded = @ \cup {Head(waiter.finished)}]
          /\ CollectFuture(Head(waiter.finished))
       \/ \* every future was yielded: the loop ends, the with block is left
          /\ waiter.yielded = Tasks
          /\ pc' = "uf_exit_ok"
          /\ UNCHANGED <<waiter, aggVars, endVars>>
    /\ UNCHANGED <<idx, envVars, argVars, valVars, slotVars, futures, work_queue, puts,
                   put_log, put_results, sleeps, requestVars, checkVars>>

\* a with block left without waiting for the tasks still running
UF_ExitNoWait ==
    /\ pc \in {"uf_exit_ok", "uf_exit_raise"}
    /\ IF pc = "uf_exit_ok" THEN UFReturn(gcs_uris) ELSE UFRaise(error)
    /\ UNCHANGED <<idx, envVars, argVars, valVars, slotVars, poolVars, aggVars,
                   requestVars, checkVars>>

\* client.py:413, 437: ThreadPoolExecutor.__exit__ is shutdown(wait=True): the with
\* block is left, by return or by exception, only once every submitted task has ended.
UF_Exit ==
    /\ pc \in {"uf_exit_ok", "uf_exit_raise"}
    /\ Finished = Tasks
    /\ IF pc = "uf_exit_ok" THEN UFReturn(gcs_uris) ELSE UFRaise(error)
    /\ UNCHANGED <<idx, envVars, argVars, valVars, slotVars, poolVars, aggVars,
                   requestVars, checkVars>>

(* ----------------------- upload_single_file, workers ------------------- *)
\* every task sending to the slot the submission loop reached last
StartPutLastSlot(t, attempt) ==
    /\ futures' = [futures EXCEPT ![t].state = "running_put", ![t].attempt = attempt]
    /\ puts' = [puts EXCEPT ![t] = @ + 1]
    /\ put_log' = put_log \cup {[file |-> validated_files[t].path,
                                 signedUrl |-> urls_data[Len(urls_data)].signedUrl,
                                 contentType |-> validated_files[t].contentType]}

\* _upload_to_signed_url(file_path, signed_url, file_data["contentType"]) starts
\* (client.py:402-404, 498-509)
StartPut(t, attempt) ==
    /\ futures' = [futures EXCEPT ![t].state = "running_put", ![t].attempt = attempt]
    /\ puts' = [puts EXCEPT ![t] = @ + 1]
    /\ put_log' = put_log \cup {[file |-> validated_files[t].path,
                                 signedUrl |-> urls_data[t].signedUrl,
                                 contentType |-> validated_files[t].contentType]}

\* A worker thread takes the task at the head of the queue and enters the retry loop
\* with attempt = 0 (client.py:394-402).
W_Start(t) ==
    /\ work_queue # <<>>
    /\ Head(work_queue) = t
    /\ WorkerFree
    /\ work_queue' = Tail(work_queue)
    /\ IF max_retries > 0
       THEN /\ StartPut(t, 0)
            /\ waiter' = waiter
       ELSE \* range(max_retries) is empty: the function falls off its end and returns None
            /\ futures' = [futures EXCEPT ![t].state = "finished_ok", ![t].result = 0,
                                              ![t].ended = EndsAs]
            /\ waiter' = NoteFinished(t)
            /\ UNCHANGED <<puts, put_log>>
    /\ UNCHANGED <<pc, idx, envVars, argVars, valVars, slotVars, put_results, sleeps,
                   aggVars, endVars, requestVars, checkVars>>

\* every task returning the first slot's URI (a closure over the loop's variable)
W_PutOkFirstSlot(t) ==
    /\ futures[t].state = "running_put"
    /\ futures' = [futures EXCEPT ![t].state = "finished_ok", ![t].result = urls_data[1].gcsUri,
                                   ![t].ended = EndsAs]
    /\ put_results' = [put_results EXCEPT ![t] = Append(@, "ok")]
    /\ waiter' = NoteFinished(t)
    /\ UNCHANGED <<pc, idx, envVars, argVars, valVars, slotVars, work_queue, puts, put_log,
                   sleeps, aggVars, endVars, requestVars, checkVars>>

\* a worker that counts and reports its own upload when the PUT succeeds
W_PutOkReportsFromWorker(t) ==
    /\ futures[t].state = "running_put"
    /\ futures' = [futures EXCEPT ![t].state = "finished_ok", ![t].result = urls_data[t].gcsUri,
                                   ![t].ended = EndsAs]
    /\ put_results' = [put_results EXCEPT ![t] = Append(@, "ok")]
    /\ waiter' = NoteFinished(t)
    /\ completed_uploads' = completed_uploads + 1
    /\ cb_calls' = ReportProgress(completed_uploads + 1)
    /\ UNCHANGED <<pc, idx, envVars, argVars, valVars, slotVars, work_queue, puts, put_log,
                   sleeps, gcs_uris, endVars, requestVars, checkVars>>

\* The PUT succeeded: return gcs_uri (client.py:405)
W_PutOk(t) ==
    /\ futures[t].state = "running_put"
    /\ futures' = [futures EXCEPT ![t].state = "finished_ok", ![t].result = urls_data[t].gcsUri,
                                   ![t].ended = EndsAs]
    /\ put_results' = [put_results EXCEPT ![t] = Append(@, "ok")]
    /\ waiter' = NoteFinished(t)
    /\ UNCHANGED <<pc, idx, envVars, argVars, valVars, slotVars, work_queue, puts, put_log,
                   sleeps, aggVars, endVars, requestVars, checkVars>>

\* an off-by-one in the test, granting one attempt more
LastAttemptOffByOne(attempt) == attempt = max_retries

\* Whether the failed attempt was the last one (client.py:407)
LastAttempt(attempt) == attempt = max_retries - 1

\* a delay growing by one time unit per attempt
W_PutFailLinearBackoff(t) ==
    /\ futures[t].state = "running_put"
    /\ put_results' = [put_results EXCEPT ![t] = Append(@, "failed")]
    /\ IF LastAttempt(futures[t].attempt)
       THEN /\ futures' = [futures EXCEPT ![t].state = "finished_err", ![t].ended = EndsAs]
            /\ waiter' = NoteFinished(t)
            /\ sleeps' = sleeps
       ELSE /\ futures' = [futures EXCEPT ![t].state = "sleeping"]
            /\ sleeps' = [sleeps EXCEPT ![t] = Append(@, futures[t].attempt + 1)]
            /\ waiter' = waiter
    /\ UNCHANGED <<pc, idx, envVars, argVars, valVars, slotVars, work_queue, puts, put_log,
                   aggVars, endVars, requestVars, checkVars>>

\* The PUT failed (client.py:406-411): raise after the last attempt, else back off
W_PutFail(t) ==
    /\ futures[t].state = "running_put"
    /\ put_results' = [put_results EXCEPT ![t] = Append(@, "failed")]
    /\ IF LastAttempt(futures[t].attempt)
       THEN /\ futures' = [futures EXCEPT ![t].state = "finished_err", ![t].ended = EndsAs]
            /\ waiter' = NoteFinished(t)
            /\ sleeps' = sleeps
       ELSE /\ futures' = [futures EXCEPT ![t].state = "sleeping"]
            /\ sleeps' = [sleeps EXCEPT ![t] = Append(@, Pow2(futures[t].attempt))]
            /\ waiter' = waiter
    /\ UNCHANGED <<pc, idx, envVars, argVars, valVars, slotVars, work_queue, puts, put_log,
                   aggVars, endVars, requestVars, checkVars>>

\* a retry started while the attempt before it is still in flight
W_RetryEager(t) ==
    /\ futures[t].state \in {"sleeping", "running_put"}
    /\ futures[t].attempt + 1 < max_retries
    /\ StartPut(t, futures[t].attempt + 1)
    /\ UNCHANGED <<pc, idx, envVars, argVars, valVars, slotVars, work_queue, waiter,
                   put_results, sleeps, aggVars, endVars, requestVars, checkVars>>

\* time.sleep returned: the next pass of "for attempt in range(max_retries)" starts
\* its PUT (client.py:400-404, 411)
W_Retry(t) ==
    /\ futures[t].state = "sleeping"
    /\ StartPut(t, futures[t].attempt + 1)
    /\ UNCHANGED <<pc, idx, envVars, argVars, valVars, slotVars, work_queue, waiter,
                   put_results, sleeps, aggVars, endVars, requestVars, checkVars>>

(* ------------------- building a request, generate_audio ---------------- *)
\* The caller builds InputContent(files=..., url=..., text=..., topic=..., script=...)
\* (types.py:8-52); a failing field validator raises pydantic's ValidationError.
BuildInputContent ==
    /\ pc = "idle"
    /\ \E ic \in InputContentArgs :
          LET errs == InputContentErrors(ic) IN
          /\ content_args' = ic
          /\ IF errs = {}
             THEN /\ input_content' = ic
                  /\ pc' = "ic_built"
                  /\ error' = error
             ELSE /\ input_content' = input_content
                  /\ pc' = "raised"
                  /\ error' = ValidationError(errs)
    /\ UNCHANGED <<idx, envVars, argVars, valVars, slotVars, poolVars, aggVars, uf_outcome,
                   request, tuning_omitted, submissions, checkVars>>

\* types.py:132-137: a tuning argument the caller leaves out takes the field's default,
\* which pydantic does not validate; the default lies inside the field's range.
WithDefaults(r, omitted) ==
    [r EXCEPT !.max_workers = IF "max_workers" \in omitted THEN default_tuning ELSE @,
              !.max_retries = IF "max_retries" \in omitted THEN default_tuning ELSE @]

\* The caller builds AudioGenerationRequest(...) on it (types.py:115-187), leaving out
\* the tuning arguments in omitted.
BuildRequest ==
    /\ pc = "ic_built"
    /\ \E r \in RequestArgs(harness, input_content), omitted \in harness.omits :
          LET built == WithDefaults(r, omitted)
              errs == RequestErrors(built)
          IN
          /\ tuning_omitted' = omitted
          /\ IF errs = {}
             THEN /\ request' = built
                  /\ pc' = "ga_entry"
                  /\ error' = error
             ELSE /\ request' = request
                  /\ pc' = "raised"
                  /\ error' = ValidationError(errs)
    /\ UNCHANGED <<idx, envVars, argVars, valVars, slotVars, poolVars, aggVars, uf_outcome,
                   content_args, input_content, submissions, checkVars>>

\* client.py:144: [f for f in request.input_content.files if isinstance(f, str)]
StrPaths(items) ==
    LET strs == SelectSeqBy(items, {e \in Range(items) : e.kind = "str"})
    IN [i \in DOMAIN strs |-> strs[i].path]

\* client.py:202-206: the entries that are str and start with gs://, as URIs
GsUriStrings(items) ==
    LET gs == SelectSeqBy(items, {e \in Range(items) : e.kind = "str" /\ e.gs})
    IN [i \in DOMAIN gs |-> 200 + gs[i].path]

\* client.py:134-151: generate_audio(request) up to the call of upload_files
\* (model_dump() serializes the model and raises nothing).
GA_Entry ==
    /\ pc = "ga_entry"
    /\ caller' = "generate_audio"
    /\ LET files == request.input_content.files
           paths == StrPaths(files.items)
       IN IF request.input_type = "file" /\ files.present /\ files.items # <<>>
             /\ paths # <<>>
          THEN /\ file_paths' = paths
               /\ progress_callback' = request.progress_callback
               /\ max_workers' = request.max_workers
               /\ max_retries' = request.max_retries
               /\ pc' = "uf_entry"
          ELSE /\ pc' = "ga_payload"
               /\ UNCHANGED argVars
    /\ UNCHANGED <<harness, idx, valVars, slotVars, poolVars, aggVars, endVars, requestVars,
                   checkVars>>

\* client.py:188-212: the input content of the payload; raises when a file request has
\* neither uploaded URIs nor gs:// strings
PayloadContent(r, uploaded) ==
    LET ic == r.input_content IN
    IF r.input_type = "text" /\ Truthy(ic.text)
    THEN [raise |-> FALSE, fields |-> {"textContent"}, gcsUris |-> <<>>]
    ELSE IF r.input_type = "url" /\ Truthy(ic.url)
    THEN [raise |-> FALSE, fields |-> {"websiteUrl"}, gcsUris |-> <<>>]
    ELSE IF r.input_type = "topic" /\ Truthy(ic.topic)
    THEN [raise |-> FALSE, fields |-> {"topic"}, gcsUris |-> <<>>]
    ELSE IF r.input_type = "script" /\ Truthy(ic.script)
    THEN [raise |-> FALSE, fields |-> {"scriptContent"}, gcsUris |-> <<>>]
    ELSE IF r.input_type = "file"
    THEN IF uploaded # <<>>
         THEN [raise |-> FALSE, fields |-> {"gcsUris"}, gcsUris |-> uploaded]
         ELSE IF ic.files.present /\ ic.files.items # <<>>
         THEN LET gcs_uri_strings == GsUriStrings(ic.files.items) IN
              IF gcs_uri_strings # <<>>
              THEN [raise |-> FALSE, fields |-> {"gcsUris"}, gcsUris |-> gcs_uri_strings]
              ELSE [raise |-> TRUE, fields |-> {}, gcsUris |-> <<>>]
         ELSE [raise |-> FALSE, fields |-> {}, gcsUris |-> <<>>]
    ELSE [raise |-> FALSE, fields |-> {}, gcsUris |-> <<>>]

\* client.py:153-214: build the payload and POST it to /api/audios
GA_Submit ==
    /\ pc = "ga_payload"
    /\ LET uploaded == IF uf_outcome.status = "returned" THEN uf_outcome.value ELSE <<>>
           content == PayloadContent(request, uploaded)
       IN IF content.raise
          THEN /\ pc' = "raised"
               /\ error' = PodfeedError("no_valid_files", 0)
               /\ submissions' = submissions
          ELSE /\ submissions' = Append(submissions,
                                    [inputType |-> request.input_type,
                                     mode |-> request.mode,
                                     fields |-> content.fields,
                                     gcsUris |-> content.gcsUris])
               /\ \/ /\ pc' = "returned"
                     /\ error' = error
                  \/ \* _request raised (client.py:77-89)
                     /\ pc' = "raised"
                     /\ error' = PodfeedError("request_failed", 0)
    /\ UNCHANGED <<idx, envVars, argVars, valVars, slotVars, poolVars, aggVars, uf_outcome,
                   content_args, input_content, request, tuning_omitted, checkVars>>

(* ------------------ a validator applied to one input ------------------- *)
\* Every InputContent that can be built: any values that pass its field validators.
BuiltInputContents ==
    { ic \in [files : FilesArgs, url : UrlArgs, text : OptStrings, topic : OptStrings,
              script : OptStrings] : InputContentErrors(ic) = {} }

InputContentCases == [input_type : InputTypes, input_content : BuiltInputContents]

\* pydantic runs validate_input_content on (info.data["input_type"], input_content)
\* (types.py:142-170)
Check_validate_input_content ==
    /\ pc = "check_input_content"
    /\ vout' = validate_input_content(vin.input_type, vin.input_content)
    /\ pc' = "checked"
    /\ UNCHANGED <<idx, envVars, argVars, valVars, slotVars, poolVars, aggVars, endVars,
                   requestVars, vin, waitVars>>

\* a caller asks a built InputContent for count_provided_inputs() (types.py:54-57)
Check_count_provided_inputs ==
    /\ pc = "check_count"
    /\ vout' = count_provided_inputs(vin)
    /\ pc' = "counted"
    /\ UNCHANGED <<idx, envVars, argVars, valVars, slotVars, poolVars, aggVars, endVars,
                   requestVars, vin, waitVars>>

\* What is left of a request when its later fields are validated: the mode (None when
\* it failed its own check and is missing from info.data), any VoiceConfig, any
\* ContentConfig.
RequestCheckCases ==
    [mode : Modes \cup {None},
     voice_config : [voice : OptStrings, host_voice : OptStrings, cohost_voice : OptStrings],
     content_config : [read_mode : BOOLEAN]]

\* pydantic runs validate_voice_config on (info.data["mode"], voice_config)
\* (types.py:172-178)
Check_validate_voice_config ==
    /\ pc = "check_request"
    /\ vout' = validate_voice_config(vin.mode, vin.voice_config)
    /\ pc' = "voice_checked"
    /\ UNCHANGED <<idx, envVars, argVars, valVars, slotVars, poolVars, aggVars, endVars,
                   requestVars, vin, waitVars>>

\* pydantic runs validate_read_mode on (info.data["mode"], content_config)
\* (types.py:180-187)
Check_validate_read_mode ==
    /\ pc = "check_request"
    /\ vout' = validate_read_mode(vin.mode, vin.content_config)
    /\ pc' = "read_mode_checked"
    /\ UNCHANGED <<idx, envVars, argVars, valVars, slotVars, poolVars, aggVars, endVars,
                   requestVars, vin, waitVars>>

(* ------------------------- wait_for_completion ------------------------- *)
\* the values of status["status"] a poll can report
TaskStatuses == {"completed", "failed", "processing", "pending"}

\* a loop that treats a failed task like one still running
PollVerdictIgnoresFailed(st) ==
    IF st = "completed" THEN "return" ELSE "again"

\* client.py:545-549: what the loop does with the status a poll reported
PollVerdict(st) ==
    IF st = "completed" THEN "return"
    ELSE IF st = "failed" THEN "raise"
    ELSE "again"

\* wait_for_completion ends, returning value or raising e
WaitEnds(how, value, e) ==
    /\ wait_outcome' = [status |-> how, value |-> value, at |-> now]
    /\ pc' = how
    /\ error' = e

\* A caller invokes client.wait_for_completion(task_id, timeout, poll_interval) at some
\* time of the clock; start_time = time.time() (client.py:521-539).
CallWaitForCompletion ==
    /\ pc = "idle"
    /\ \E t \in 0..MaxTimeout, p \in 1..MaxPollInterval, t0 \in 0..1 :
          /\ timeout' = t
          /\ poll_interval' = p
          /\ now' = t0
          /\ start_time' = t0
    /\ caller' = "wait_for_completion"
    /\ pc' = "wfc_loop"
    /\ UNCHANGED <<harness, idx, argVars, valVars, slotVars, poolVars, aggVars, endVars,
                   requestVars, vin, vout, sleep_log, polls, wait_outcome>>

\* client.py:541, 551: while time.time() - start_time < timeout, else the timeout error
WFC_LoopTest ==
    /\ pc = "wfc_loop"
    /\ IF now - start_time < timeout
       THEN /\ pc' = "wfc_sleep"
            /\ UNCHANGED <<error, wait_outcome>>
       ELSE WaitEnds("raised", None, PodfeedError("timed_out", 0))
    /\ UNCHANGED <<idx, envVars, argVars, valVars, slotVars, poolVars, aggVars, uf_outcome,
                   requestVars, vin, vout, now, start_time, timeout, poll_interval,
                   sleep_log, polls>>

\* client.py:542: time.sleep(poll_interval)
WFC_Sleep ==
    /\ pc = "wfc_sleep"
    /\ sleep_log' = Append(sleep_log, [at |-> now, secs |-> poll_interval])
    /\ now' = now + poll_interval
    /\ pc' = "wfc_poll"
    /\ UNCHANGED <<idx, envVars, argVars, valVars, slotVars, poolVars, aggVars, endVars,
                   requestVars, vin, vout, start_time, timeout, poll_interval, polls,
                   wait_outcome>>

\* client.py:544-549: status = self.get_task_progress(task_id), then the test of
\* status["status"]; _request may raise instead of answering (client.py:74-89).
WFC_Poll ==
    /\ pc = "wfc_poll"
    /\ \/ \E st \in TaskStatuses :
             /\ polls' = Append(polls, [at |-> now, status |-> st])
             /\ CASE PollVerdict(st) = "return" -> WaitEnds("returned", st, error)
                  [] PollVerdict(st) = "raise" ->
                        WaitEnds("raised", None, PodfeedError("generation_failed", 0))
                  [] OTHER -> /\ pc' = "wfc_loop"
                              /\ UNCHANGED <<error, wait_outcome>>
       \/ /\ polls' = Append(polls, [at |-> now, status |-> None])
          /\ WaitEnds("raised", None, PodfeedError("request_failed", 0))
    /\ UNCHANGED <<idx, envVars, argVars, valVars, slotVars, poolVars, aggVars, uf_outcome,
                   requestVars, vin, vout, now, start_time, timeout, poll_interval,
                   sleep_log>>

(* --------------------------- specifications ---------------------------- *)
Next ==
    \/ CallUploadFiles
    \/ UF_Entry
    \/ UF_ValidateFile
    \/ UF_GetUploadUrls
    \/ UF_Submit
    \/ UF_AsCompleted
    \/ UF_Collect
    \/ UF_Exit
    \/ \E t \in Tasks : W_Start(t)
    \/ \E t \in Tasks : W_PutOk(t)
    \/ \E t \in Tasks : W_PutFail(t)
    \/ \E t \in Tasks : W_Retry(t)
    \/ BuildInputContent
    \/ BuildRequest
    \/ GA_Entry
    \/ GA_Submit

\* Calls made by callers that keep to the documented interface.
Spec == Init /\ [][Next]_vars

\* validate_input_content on every input type and every InputContent that can be built.
InitInputContent == InitVars(HarnessContract, "check_input_content", InputContentCases)
NextInputContent == Check_validate_input_content
SpecInputContent == InitInputContent /\ [][NextInputContent]_vars

\* count_provided_inputs on every InputContent that can be built.
InitCountProvided == InitVars(HarnessContract, "check_count", BuiltInputContents)
NextCountProvided == Check_count_provided_inputs
SpecCountProvided == InitCountProvided /\ [][NextCountProvided]_vars

\* The voice and read-mode validators on every mode, VoiceConfig and ContentConfig.
InitRequestChecks == InitVars(HarnessContract, "check_request", RequestCheckCases)
NextRequestChecks ==
    \/ Check_validate_voice_config
    \/ Check_validate_read_mode
SpecRequestChecks == InitRequestChecks /\ [][NextRequestChecks]_vars

\* generate_audio called with requests built on any tuning values; upload_files is
\* reached through generate_audio alone.
InitTuning == InitWith(HarnessTuning)
NextGenerate ==
    \/ BuildInputContent
    \/ BuildRequest
    \/ GA_Entry
    \/ GA_Submit
    \/ UF_Entry
    \/ UF_ValidateFile
    \/ UF_GetUploadUrls
    \/ UF_Submit
    \/ UF_AsCompleted
    \/ UF_Collect
    \/ UF_Exit
    \/ \E t \in Tasks : W_Start(t)
    \/ \E t \in Tasks : W_PutOk(t)
    \/ \E t \in Tasks : W_PutFail(t)
    \/ \E t \in Tasks : W_Retry(t)
SpecTuning == InitTuning /\ [][NextGenerate]_vars

\* Calls whose files may fail every one of MaxBackoffRetries attempts.
InitBackoff == InitWith(HarnessBackoff)
SpecBackoff == InitBackoff /\ [][Next]_vars

\* Calls on paths at the edges of the file checks.
InitSizes == InitWith(HarnessSizes)
SpecSizes == InitSizes /\ [][Next]_vars

\* The steps of the thread that called upload_files, and those of the worker thread
\* running the task of file t.
Coordinator ==
    \/ UF_Entry
    \/ UF_ValidateFile
    \/ UF_GetUploadUrls
    \/ UF_Submit
    \/ UF_AsCompleted
    \/ UF_Collect
    \/ UF_Exit
Worker(t) ==
    /\ t \in Tasks
    /\ (W_Start(t) \/ W_PutOk(t) \/ W_PutFail(t) \/ W_Retry(t))

\* Threads are scheduled fairly and every collaborator call comes back: the calling
\* thread and each worker thread take their next step when they can; a PUT in flight
\* ends (requests.put has timeout=300, client.py:505-510) and a sleep returns.
Fairness ==
    /\ WF_vars(Coordinator)
    /\ \A t \in 1..MaxFiles : WF_vars(Worker(t))
\* upload_files called directly, without a callback, by fairly scheduled threads.
HarnessDirect ==
    [callbacks |-> {None}, workers |-> 1..MaxWorkers, retries |-> 1..MaxRetries,
     omits |-> {{}}, stats |-> FileStats]
InitDirect == InitWith(HarnessDirect)
NextUpload ==
    \/ CallUploadFiles
    \/ UF_Entry
    \/ UF_ValidateFile
    \/ UF_GetUploadUrls
    \/ UF_Submit
    \/ UF_AsCompleted
    \/ UF_Collect
    \/ UF_Exit
    \/ \E t \in Tasks : W_Start(t)
    \/ \E t \in Tasks : W_PutOk(t)
    \/ \E t \in Tasks : W_PutFail(t)
    \/ \E t \in Tasks : W_Retry(t)
\* upload_files called directly with any integer max_retries: the method checks no range
\* (client.py:350-356).
HarnessAnyRetries ==
    [callbacks |-> {None, "returns"}, workers |-> {1}, retries |-> (-1)..MaxRetries,
     omits |-> {{}}, stats |-> FileStats]
InitAnyRetries == InitWith(HarnessAnyRetries)
SpecAnyRetries == InitAnyRetries /\ [][NextUpload]_vars

\* upload_files called directly with a progress callback that returns or that raises.
HarnessCallbacks ==
    [callbacks |-> {"returns", "raises"}, workers |-> 1..MaxWorkers,
     retries |-> 1..MaxRetries, omits |-> {{}}, stats |-> FileStats]
InitCallbacks == InitWith(HarnessCallbacks)
SpecCallbacks == InitCallbacks /\ [][NextUpload]_vars

SpecFair == InitDirect /\ [][NextUpload]_vars /\ Fairness

(* ------------------------------ claims --------------------------------- *)
UploadEnded == uf_outcome.status # None
BatchStarted == futures # <<>>
Occurrences(s, x) == Cardinality({i \in DOMAIN s : s[i] = x})
SlotUris == [j \in DOMAIN urls_data |-> urls_data[j].gcsUri]
IsPermutation(s, t) ==
    /\ Len(s) = Len(t)
    /\ \A x \in Range(s) \cup Range(t) : Occurrences(s, x) = Occurrences(t, x)
SlotsDistinct ==
    \A i, j \in DOMAIN urls_data : i # j => urls_data[i].gcsUri # urls_data[j].gcsUri
AllPutsSucceeded == BatchStarted /\ \A t \in Tasks : futures[t].state = "finished_ok"

\* C1: when the collaborator returned one slot per file with pairwise distinct object
\* URIs and every file's PUT succeeded, the ended upload_files call has returned, and
\* what it returned is a list of N URIs that is a permutation of the slots' gcsUri
\* values: none twice, none dropped, whatever the order the workers finished in.
C1_ReturnsPermutationOfSlotUris ==
    (UploadEnded /\ AllPutsSucceeded /\ SlotsDistinct /\ Len(urls_data) = Len(file_paths))
    => /\ uf_outcome.status = "returned"
       /\ Len(uf_outcome.value) = Len(file_paths)
       /\ IsPermutation(uf_outcome.value, SlotUris)
       /\ \A x \in Range(uf_outcome.value) : Occurrences(uf_outcome.value, x) = 1

\* a full batch returned in an order other than the submission order
C1_Witness ==
    /\ uf_outcome.status = "returned"
    /\ Len(file_paths) = MaxFiles
    /\ SlotsDistinct
    /\ uf_outcome.value # SlotUris
    /\ IsPermutation(uf_outcome.value, SlotUris)

SlotCountDiffers == url_answer = "answered" /\ Len(urls_data) # Len(validated_files)

\* C2: once the signed-URL request was answered with a number of slots other than the
\* number of validated files, upload_files has failed with the mismatch error, and no
\* PUT was started for any file of the batch, then or in any later state.
C2_SlotMismatchFailsBeforeAnyPut ==
    SlotCountDiffers
    => /\ uf_outcome.status = "raised"
       /\ pc = "raised"
       /\ error = PodfeedError("slot_mismatch", 0)
       /\ put_log = {}
       /\ futures = <<>>
       /\ work_queue = <<>>

\* more slots than files came back, and the call failed
C2_Witness ==
    /\ SlotCountDiffers
    /\ Len(urls_data) > Len(validated_files)
    /\ uf_outcome.status = "raised"

AllFailed(r) == \A i \in DOMAIN r : r[i] = "failed"
\* the attempts before the last one of r all failed
FailedBeforeLast(r) == \A i \in DOMAIN r : i < Len(r) => r[i] = "failed"

\* C3: for every file of a batch that passed slot acquisition: a PUT is started only
\* after all earlier ones failed and never after one succeeded, at most max_retries are
\* started, a file that succeeded made as many PUTs as the index of its first success,
\* a file that failed made exactly max_retries PUTs, all failed, a file still backing
\* off has an attempt left, and when upload_files has ended every file has ended, and
\* the call has raised if a file ran out of attempts.
C3_PutAttemptsPerFile ==
    \A t \in Tasks :
        LET r == put_results[t] IN
        /\ puts[t] <= max_retries
        /\ FailedBeforeLast(r)
        /\ puts[t] = Len(r) + (IF futures[t].state = "running_put" THEN 1 ELSE 0)
        /\ futures[t].state = "running_put" => AllFailed(r)
        /\ futures[t].state = "sleeping" => AllFailed(r) /\ Len(r) >= 1 /\ Len(r) < max_retries
        /\ futures[t].state = "finished_ok"
              => Len(r) >= 1 /\ r[Len(r)] = "ok" /\ puts[t] = Len(r)
        /\ futures[t].state = "finished_err" => AllFailed(r) /\ puts[t] = max_retries
        /\ futures[t].state \in {"new", "pending"} => puts[t] = 0
        /\ UploadEnded => futures[t].state \in {"finished_ok", "finished_err"}
        /\ (UploadEnded /\ futures[t].state = "finished_err") => uf_outcome.status = "raised"

\* a batch that failed with one file out of attempts after max_retries > 1 PUTs and
\* another file that succeeded on a retry
C3_Witness ==
    /\ uf_outcome.status = "raised"
    /\ max_retries > 1
    /\ \E t \in Tasks : futures[t].state = "finished_err" /\ puts[t] = max_retries
    /\ \E t \in Tasks : futures[t].state = "finished_ok" /\ puts[t] > 1

\* C4: the number of PUT transfers in flight never exceeds max_workers.
C4_InFlightAtMostMaxWorkers == Cardinality(InFlight) <= max_workers

\* the pool is full and a submitted file waits for a worker
C4_Witness ==
    /\ Cardinality(InFlight) = max_workers
    /\ work_queue # <<>>

\* C5: the i-th invocation of the progress callback receives (i, N), N the number of
\* files of the batch; when upload_files ended with every file uploaded and a callback
\* was given, the callback was invoked exactly N times.
C5_ProgressCountsByOne ==
    /\ \A i \in DOMAIN cb_calls : cb_calls[i] = <<i, Len(file_paths)>>
    /\ (UploadEnded /\ AllPutsSucceeded /\ progress_callback # None)
          => /\ Len(cb_calls) = Len(file_paths)
             /\ cb_calls[Len(cb_calls)] = <<Len(file_paths), Len(file_paths)>>

\* a full batch reported while other files were still uploading
C5_Witness ==
    /\ uf_outcome.status = "returned"
    /\ progress_callback # None
    /\ Len(cb_calls) = MaxFiles
    /\ Len(file_paths) = MaxFiles

\* what the claim calls a path that fails local validation
FailsLocalValidation(stat) == ~stat.exists \/ ~stat.is_file \/ stat.size > max_size_bytes
FileErrors == {"file_not_found", "not_a_file", "too_large"}

\* C6: if a path of the batch, at any position, was found missing, not a regular file
\* or over the size cap, upload_files has failed with a file error for that path and
\* neither a signed-URL request nor a PUT was or is ever made; and a signed-URL request
\* is made only after every path of the batch was checked and found valid.
C6_InvalidPathAbortsBeforeNetwork ==
    /\ \A i \in DOMAIN fs_seen :
          FailsLocalValidation(fs_seen[i])
          => /\ uf_outcome.status = "raised"
             /\ pc = "raised"
             /\ error.type = "PodfeedError"
             /\ error.kind \in FileErrors
             /\ error.path = file_paths[i]
             /\ url_requests = 0
             /\ put_log = {}
             /\ futures = <<>>
             /\ submissions = <<>>
    /\ url_requests > 0
          => /\ Len(fs_seen) = Len(file_paths)
             /\ Len(validated_files) = Len(file_paths)

\* the last path of a batch is too large, the ones before it are valid
C6_Witness ==
    /\ Len(fs_seen) = MaxFiles
    /\ \A i \in 1..(MaxFiles - 1) : ~FailsLocalValidation(fs_seen[i])
    /\ fs_seen[MaxFiles].size > max_size_bytes
    /\ uf_outcome.status = "raised"

\* C7: upload_files called with an empty list returns the empty list, and makes no
\* signed-URL request, no PUT and no callback invocation.
C7_EmptyListReturnsEmpty ==
    (caller = "upload_files" /\ file_paths = <<>>)
    => /\ url_requests = 0
       /\ put_log = {}
       /\ futures = <<>>
       /\ cb_calls = <<>>
       /\ pc \in {"uf_entry", "returned"}
       /\ pc = "returned" => uf_outcome = [status |-> "returned", value |-> <<>>]

\* the call with an empty list and a callback has returned
C7_Witness ==
    /\ caller = "upload_files"
    /\ file_paths = <<>>
    /\ progress_callback # None
    /\ pc = "returned"
    /\ uf_outcome.status = "returned"

SomeFileExhausted == \E t \in Tasks : futures[t].state = "finished_err"

\* C8: once a file of the batch has run out of attempts, upload_files never returns a
\* list: when it ends it has raised the upload failure, and generate_audio, if it is
\* the caller, never reaches its payload and posts no job.
C8_ExhaustedFileFailsWholeCall ==
    SomeFileExhausted
    => /\ uf_outcome.status # "returned"
       /\ pc \notin {"returned", "ga_payload"}
       /\ submissions = <<>>
       /\ UploadEnded
             => /\ uf_outcome = [status |-> "raised", value |-> <<>>]
                /\ pc = "raised"
                /\ error.type = "PodfeedError"
                /\ error.kind = "upload_failed"

\* generate_audio's upload has raised although another file of the batch was uploaded
\* and reported
C8_Witness ==
    /\ caller = "generate_audio"
    /\ uf_outcome.status = "raised"
    /\ SomeFileExhausted
    /\ \E t \in Tasks : futures[t].state = "finished_ok"
    /\ gcs_uris # <<>>

\* the invariants of a generation request, as the claim lists them
PopulatedFields(ic) ==
    {f \in InputTypes :
        CASE f = "file" -> ic.files.present
          [] f = "url" -> ic.url # None
          [] f = "text" -> ic.text # None
          [] f = "topic" -> ic.topic # None
          [] f = "script" -> ic.script # None}
WellShaped(r) ==
    /\ r.input_type \in InputTypes
    /\ r.mode \in Modes
    /\ PopulatedFields(r.input_content) = {r.input_type}
    /\ r.mode = "monologue" => r.voice_config.voice \notin {None, ""}
    /\ r.mode = "dialogue" => /\ r.voice_config.host_voice \notin {None, ""}
                              /\ r.voice_config.cohost_voice \notin {None, ""}
    /\ r.content_config.read_mode => r.mode = "monologue"
    /\ r.input_content.url \in {None, "http://x", "https://x"}
    /\ r.input_content.files.present
          => /\ r.input_content.files.items # <<>>
             /\ \A i \in DOMAIN r.input_content.files.items :
                   LET e == r.input_content.files.items[i]
                   IN e.kind = "bytes" \/ e.exists

\* C9: a validation error ends the run where it is raised, before any I/O: no
\* signed-URL request, no PUT and no job submission was made, no request object exists
\* and nothing further happens (no retry); and generate_audio only ever runs, and I/O
\* is only ever done, on a request that satisfies every invariant.
C9_ValidationErrorBeforeAnyIO ==
    /\ error.type = "ValidationError"
          => /\ pc = "raised"
             /\ request = NoRequest
             /\ caller = None
             /\ url_requests = 0
             /\ put_log = {}
             /\ submissions = <<>>
             /\ ~ENABLED Next
    /\ pc \in {"ga_entry", "ga_payload"} \/ caller = "generate_audio" => WellShaped(request)

\* a request with read_mode in dialogue mode was refused
C9_Witness ==
    /\ error.type = "ValidationError"
    /\ "read_mode" \in error.errors
    /\ pc = "raised"

\* C10: validate_input_content accepts (input_type, input_content) exactly when the
\* populated fields of the content are the one field input_type names; with none or
\* with two or more populated it raises, and with exactly one populated it never
\* raises the cardinality error.
C10_InputContentAcceptedIffOneMatching ==
    pc = "checked"
    => LET populated == PopulatedFields(vin.input_content) IN
       /\ vout = "ok" <=> populated = {vin.input_type}
       /\ Cardinality(populated) # 1 => vout # "ok"
       /\ Cardinality(populated) = 1 => vout # "input_count"

\* a single populated field that is not the one input_type names was refused, and not
\* by the cardinality check
C10_Witness ==
    /\ pc = "checked"
    /\ Cardinality(PopulatedFields(vin.input_content)) = 1
    /\ PopulatedFields(vin.input_content) # {vin.input_type}
    /\ vout = "input_mismatch"

\* the fields of an InputContent that are neither null nor empty
NonEmptyFields(ic) ==
    {f \in InputTypes :
        CASE f = "file" -> ic.files.present /\ ic.files.items # <<>>
          [] f = "url" -> ic.url \notin {None, ""}
          [] f = "text" -> ic.text \notin {None, ""}
          [] f = "topic" -> ic.topic \notin {None, ""}
          [] f = "script" -> ic.script \notin {None, ""}}

\* C11: count_provided_inputs returns the number of the fields files, url, text, topic
\* and script that are non-null and non-empty; an empty string is not counted.
C11_CountsNonEmptyFields ==
    pc = "counted" => vout = Cardinality(NonEmptyFields(vin))

\* C12: in monologue mode the voice configuration is accepted exactly when voice is
\* non-empty, whatever host_voice and cohost_voice are; in dialogue mode exactly when
\* host_voice and cohost_voice are both non-empty, whatever voice is.
C12_VoiceAcceptedIffModeVoicesGiven ==
    pc = "voice_checked"
    => LET vc == vin.voice_config IN
       /\ vin.mode = "monologue" => (vout = "ok" <=> vc.voice \notin {None, ""})
       /\ vin.mode = "dialogue"
             => (vout = "ok" <=> /\ vc.host_voice \notin {None, ""}
                                 /\ vc.cohost_voice \notin {None, ""})

\* a dialogue configuration with a voice and a host voice but an empty co-host voice was
\* refused
C12_Witness ==
    /\ pc = "voice_checked"
    /\ vin.mode = "dialogue"
    /\ vin.voice_config = [voice |-> "x", host_voice |-> "x", cohost_voice |-> ""]
    /\ vout = "hosts_required"

\* C13: with read_mode set the content configuration is accepted exactly when the mode
\* is monologue, and refused with the read-mode error in dialogue mode; with read_mode
\* unset it is accepted for every mode.
C13_ReadModeOnlyForMonologue ==
    pc = "read_mode_checked"
    => /\ vin.content_config.read_mode
             => /\ vout = "ok" <=> vin.mode = "monologue"
                /\ vin.mode = "dialogue" => vout = "read_mode"
       /\ ~vin.content_config.read_mode => vout = "ok"

\* read_mode in dialogue mode was refused
C13_Witness ==
    /\ pc = "read_mode_checked"
    /\ vin.mode = "dialogue"
    /\ vin.content_config.read_mode
    /\ vout = "read_mode"

\* C14: a request object exists only with max_workers and max_retries in 1..10, an
\* omitted one being 3, and generate_audio runs its upload with exactly the request's
\* values, so with 1 <= max_workers <= 10 and 1 <= max_retries <= 10.
C14_UploadTuningWithinRange ==
    /\ request # NoRequest
          => /\ request.max_workers \in 1..10
             /\ request.max_retries \in 1..10
             /\ "max_workers" \in tuning_omitted => request.max_workers = 3
             /\ "max_retries" \in tuning_omitted => request.max_retries = 3
    /\ caller = "generate_audio"
          => /\ max_workers \in 1..10
             /\ max_retries \in 1..10
             /\ file_paths # <<>> => /\ max_workers = request.max_workers
                                     /\ max_retries = request.max_retries
    /\ error.type = "ValidationError" => ~BatchStarted /\ url_requests = 0

\* generate_audio uploads with the largest number of workers a request can ask for and
\* the default number of attempts, and a file has used them up
C14_Witness ==
    /\ caller = "generate_audio"
    /\ tuning_omitted = {"max_retries"}
    /\ max_workers = 10
    /\ max_retries = 3
    /\ \E t \in Tasks : futures[t].state = "finished_err" /\ puts[t] = 3

\* the files that ran out of attempts, and the one of them that ended first
Exhausted == {t \in Tasks : futures[t].state = "finished_err"}
FirstExhausted == CHOOSE t \in Exhausted : \A u \in Exhausted : futures[t].ended <= futures[u].ended

\* C15: once the coordinator has met a file that ran out of attempts it raises without
\* waiting for the uploads still outstanding, and the error upload_files raises is that
\* of the file that failed first in completion order.
C15_FailsFastWithFirstError ==
    /\ pc = "uf_exit_raise" => ENABLED UF_Exit
    /\ (uf_outcome.status = "raised" /\ error.kind = "upload_failed")
          => error.path = validated_files[FirstExhausted].path
\* C16: the list upload_files returns is in submission order: its i-th element is the
\* object URI of the slot paired with file_paths[i], whatever order the uploads
\* completed in.
C16_ResultInSubmissionOrder ==
    uf_outcome.status = "returned"
    => \A i \in DOMAIN uf_outcome.value : uf_outcome.value[i] = urls_data[i].gcsUri
\* C17: every PUT made for file_paths[i] went to the signed URL of the i-th slot, with
\* the content type of the i-th descriptor sent for the slots; no PUT of a file went to
\* a signed URL returned for another position; and the URI a successful upload handed
\* back for file_paths[i] is the i-th slot's gcsUri.
C17_PairingIsPositional ==
    /\ \A e \in put_log :
          \E i \in DOMAIN file_paths :
             /\ file_paths[i] = e.file
             /\ e.signedUrl = urls_data[i].signedUrl
             /\ e.contentType = url_payloads[1][i].contentType
             /\ \A j \in DOMAIN urls_data :
                   e.signedUrl = urls_data[j].signedUrl => file_paths[j] = e.file
    /\ \A t \in Tasks :
          (futures[t].state = "finished_ok" /\ puts[t] > 0)
          => futures[t].result = urls_data[t].gcsUri

\* two files of different content types were uploaded, the second one first and the
\* first one on a retry
C17_Witness ==
    /\ Len(futures) >= 2
    /\ futures[1].state = "finished_ok" /\ futures[2].state = "finished_ok"
    /\ futures[2].ended < futures[1].ended
    /\ puts[1] > 1
    /\ validated_files[1].contentType # validated_files[2].contentType
    /\ SlotsDistinct

\* every path of the batch was checked and found valid
AllPathsValid ==
    /\ Len(fs_seen) = Len(file_paths)
    /\ \A i \in DOMAIN fs_seen : ~FailsLocalValidation(fs_seen[i])

\* C18: at most one signed-URL request is ever made, and none again after it failed or
\* was answered with a mismatching slot count; it carries one descriptor per path, in
\* the order of the paths; a PUT is started only after it was made and answered; and a
\* call with a non-empty, fully valid path list that got past validation has made
\* exactly one.
C18_OneSlotRequestBeforeAnyPut ==
    /\ url_requests <= 1
    /\ Len(url_payloads) = url_requests
    /\ \A k \in DOMAIN url_payloads :
          /\ Len(url_payloads[k]) = Len(file_paths)
          /\ \A i \in DOMAIN file_paths :
                /\ url_payloads[k][i].filename = file_paths[i]
                /\ url_payloads[k][i].size = fs_seen[i].size
                /\ url_payloads[k][i].contentType
                      = (IF GuessType(file_paths[i]) = None THEN OctetStream
                         ELSE GuessType(file_paths[i]))
    /\ (put_log # {} \/ BatchStarted) => url_requests = 1 /\ url_answer = "answered"
    /\ (url_answer = "failed" \/ SlotCountDiffers)
          => /\ url_requests = 1
             /\ pc = "raised"
             /\ ~ENABLED UF_GetUploadUrls
    /\ (file_paths # <<>> /\ AllPathsValid /\ pc \notin {"uf_validate", "uf_get_urls"})
          => url_requests = 1

\* a full batch of files of different content types is being uploaded after its one
\* signed-URL request
C18_Witness ==
    /\ Len(file_paths) = MaxFiles
    /\ url_requests = 1
    /\ put_log # {}
    /\ Len(url_payloads[1]) = MaxFiles
    /\ url_payloads[1][1].contentType # url_payloads[1][2].contentType

\* the waits the claim lists: 2^(k-1) time units after failed attempt k
BackoffSchedule == <<1, 2, 4, 8, 16, 32, 64, 128, 256>>
FailedAttempts(r) == Cardinality({i \in DOMAIN r : r[i] = "failed"})

\* C19: the k-th wait of a file is 2^(k-1) time units (1, 2, 4, ...); a file has waited
\* once after each failed attempt except the max_retries-th, after which it has raised
\* without waiting; so it never waits more than max_retries - 1 times.
C19_BackoffDoublesFromOne ==
    \A t \in Tasks :
        LET r == put_results[t] IN
        /\ \A k \in DOMAIN sleeps[t] : sleeps[t][k] = BackoffSchedule[k]
        /\ Len(sleeps[t]) <= max_retries - 1
        /\ Len(sleeps[t])
              = FailedAttempts(r) - (IF futures[t].state = "finished_err" THEN 1 ELSE 0)
        /\ futures[t].state = "finished_err" => FailedAttempts(r) = max_retries
        /\ futures[t].state = "sleeping" => Len(sleeps[t]) = Len(r)

\* a file failed all its attempts after waiting 1, 2 and 4 time units
C19_Witness ==
    \E t \in Tasks :
        /\ futures[t].state = "finished_err"
        /\ Len(sleeps[t]) >= 3
        /\ SubSeq(sleeps[t], 1, 3) = <<1, 2, 4>>
        /\ Len(put_results[t]) = Len(sleeps[t]) + 1

\* the PUTs of file t that were started and have not ended
InFlightOf(t) == puts[t] - Len(put_results[t])

\* a step that starts a PUT for file t starts attempt k+1 when attempts 1..k have all
\* ended in failure and k waits were made, the last one being over
StartsNextAttemptInTurn(t) ==
    puts'[t] > puts[t]
    => /\ puts'[t] = puts[t] + 1
       /\ Len(put_results[t]) = puts[t]
       /\ AllFailed(put_results[t])
       /\ Len(sleeps[t]) = puts[t]
       /\ puts[t] > 0 => futures[t].state = "sleeping"
       /\ futures'[t].state = "running_put"

\* C20: in every reachable state at most one PUT is in flight for any file, and every
\* step that starts attempt k+1 of a file is taken after attempt k of that file has
\* failed and its backoff wait has been made.
C20_RetriesAreSequential ==
    /\ [](\A t \in Tasks : /\ InFlightOf(t) \in {0, 1}
                            /\ InFlightOf(t) = 1 <=> futures[t].state = "running_put")
    /\ [][\A t \in (DOMAIN puts) \cap (DOMAIN puts') : StartsNextAttemptInTurn(t)]_vars

\* the second attempt of one file is in flight after its wait, beside the first attempt
\* of another file
C20_Witness ==
    \E t, u \in Tasks :
        /\ t # u
        /\ futures[t].state = "running_put" /\ puts[t] = 2 /\ sleeps[t] = <<1>>
        /\ futures[u].state = "running_put" /\ puts[u] = 1

\* C21: the pool does not serialize uploads below its bound: whenever a submitted file
\* waits in the queue and fewer than max_workers files are being uploaded, a worker can
\* start the file at the head of the queue at once; so with max_workers = k > 1 and k
\* files the state with all k PUTs in flight is reached.
C21_PoolStartsQueuedFileBelowBound ==
    (work_queue # <<>> /\ Cardinality(Busy) < max_workers)
    => ENABLED W_Start(Head(work_queue))

\* max_workers = k > 1, a batch of k files, and all k PUTs are in flight at once
C21_Witness ==
    /\ max_workers > 1
    /\ Len(file_paths) = max_workers
    /\ Cardinality(InFlight) = max_workers

\* C22: a file that ran out of attempts cancels nothing: when upload_files has raised
\* for it, every submitted file, also one that was still queued when the failure
\* happened, has run its own PUT attempts to its own end (a success, or max_retries
\* failures); so no PUT is in flight and none can start once upload_files has raised.
C22_RaisesAfterAllTasksEnded ==
    (uf_outcome.status = "raised" /\ SomeFileExhausted)
    => /\ Finished = Tasks
       /\ Tasks = DOMAIN validated_files
       /\ InFlight = {}
       /\ work_queue = <<>>
       /\ \A t \in Tasks :
             /\ puts[t] >= 1
             /\ puts[t] = Len(put_results[t])
             /\ futures[t].state = "finished_ok" => put_results[t][puts[t]] = "ok"
             /\ futures[t].state = "finished_err" => puts[t] = max_retries
             /\ ~ENABLED W_Start(t)
             /\ ~ENABLED W_Retry(t)

\* with one worker, the first file failed all its attempts and the second, queued until
\* then, was uploaded before upload_files raised
C22_Witness ==
    /\ uf_outcome.status = "raised"
    /\ max_workers = 1
    /\ Len(futures) >= 2
    /\ futures[1].state = "finished_err"
    /\ futures[2].state = "finished_ok"
    /\ futures[2].ended > futures[1].ended

\* the files the coordinator has taken from as_completed and found uploaded
YieldedOk == {t \in waiter.yielded : futures[t].state = "finished_ok"}
FailureObserved == error.kind = "upload_failed"

\* C23: the progress callback is invoked once for each file the coordinator found
\* uploaded and for no other file, so at most once per file and never for a file that
\* ran out of attempts; completed <= total in every invocation; and once the coordinator
\* has met a failed file the callback is never invoked again, whatever succeeds later.
C23_CallbackOnlyForSuccessBeforeFailure ==
    /\ [](/\ Len(cb_calls) = (IF progress_callback = None THEN 0 ELSE Cardinality(YieldedOk))
          /\ Len(cb_calls) <= Len(file_paths)
          /\ \A i \in DOMAIN cb_calls : cb_calls[i][1] <= cb_calls[i][2])
    /\ [][FailureObserved => cb_calls' = cb_calls]_vars

\* a callback was given; one file failed, another was uploaded after that failure, and
\* upload_files raised without reporting it
C23_Witness ==
    /\ uf_outcome.status = "raised"
    /\ progress_callback # None
    /\ FailureObserved
    /\ \E t, u \in Tasks : /\ futures[t].state = "finished_err"
                            /\ futures[u].state = "finished_ok"
                            /\ futures[u].ended > futures[t].ended
                            /\ u \notin waiter.yielded
    /\ cb_calls = <<>>

\* a step that writes the result list, the completed counter or the callback's record
WritesAggregates ==
    gcs_uris' # gcs_uris \/ completed_uploads' # completed_uploads \/ cb_calls' # cb_calls

\* C24: no update of the completed counter or of the result list is lost: both always
\* equal the number of files the coordinator found uploaded, and so does the number of
\* callback invocations when a callback is given; and every step that writes them is a
\* step of the coordinator's loop, in which no worker moves, which adds one URI and one
\* to the counter and invokes the callback with the counter equal to the list's length.
C24_AggregatesWrittenByCoordinatorOnly ==
    /\ [](/\ Len(gcs_uris) = completed_uploads
          /\ completed_uploads = Cardinality(YieldedOk)
          /\ progress_callback # None => Len(cb_calls) = completed_uploads)
    /\ [][WritesAggregates
            => /\ pc = "uf_collect"
               /\ futures' = futures
               /\ Len(gcs_uris') = Len(gcs_uris) + 1
               /\ completed_uploads' = Len(gcs_uris')
               /\ progress_callback # None
                     => cb_calls' = Append(cb_calls, <<Len(gcs_uris'), Len(file_paths)>>)
               /\ progress_callback = None => cb_calls' = cb_calls]_vars

\* the callback has been invoked for one file while the PUT of another is in flight
C24_Witness ==
    /\ Len(cb_calls) = 1
    /\ Len(gcs_uris) = 1
    /\ completed_uploads = 1
    /\ InFlight # {}

\* what the claim says of a path, from what the file system shows of it
ExpectedVerdict(stat) ==
    IF ~stat.exists THEN "file_not_found"
    ELSE IF ~stat.is_file THEN "not_a_file"
    ELSE IF stat.size > 500 * 1024 * 1024 THEN "too_large"
    ELSE "ok"

\* C25: the paths are looked at in list order, each after all before it were accepted;
\* a path is refused as missing if it does not exist, else as not a file if it is not a
\* regular file, else as too large if its size exceeds 500*1024*1024 bytes, and is
\* accepted otherwise, a size of exactly 500*1024*1024 included; the error raised names
\* the first refused path of the list; an accepted file whose type cannot be guessed is
\* described as application/octet-stream, any other by its guessed type.
C25_ValidationOrderAndSizeCap ==
    /\ Len(fs_seen) <= Len(file_paths)
    /\ \A i \in DOMAIN fs_seen :
          /\ \A j \in 1..(i - 1) : ExpectedVerdict(fs_seen[j]) = "ok"
          /\ ExpectedVerdict(fs_seen[i]) # "ok"
                => /\ i = Len(fs_seen)
                   /\ Len(validated_files) = i - 1
                   /\ uf_outcome.status = "raised"
                   /\ error = PodfeedError(ExpectedVerdict(fs_seen[i]), file_paths[i])
          /\ ExpectedVerdict(fs_seen[i]) = "ok"
                => /\ i \in DOMAIN validated_files
                   /\ validated_files[i].path = file_paths[i]
                   /\ validated_files[i].size = fs_seen[i].size
                   /\ validated_files[i].contentType
                         = (IF GuessType(file_paths[i]) = None
                            THEN "application/octet-stream" ELSE GuessType(file_paths[i]))
    /\ Len(validated_files) <= Len(fs_seen)

\* a file of exactly the maximum size was accepted, and the path after it, not a
\* regular file and reporting a size over the cap, was refused as not a file
C25_Witness ==
    /\ Len(fs_seen) = 2
    /\ fs_seen[1] = [exists |-> TRUE, is_file |-> TRUE, size |-> 524288000]
    /\ Len(validated_files) = 1
    /\ fs_seen[2] = [exists |-> TRUE, is_file |-> FALSE, size |-> 524288001]
    /\ error = PodfeedError("not_a_file", file_paths[2])

RECURSIVE SumTo(_, _)
SumTo(f, n) == IF n = 0 THEN 0 ELSE f[n] + SumTo(f, n - 1)
\* the PUT attempts started so far, over all files of the batch
TotalPuts == SumTo(puts, Len(puts))

\* C26: with fair threads and collaborator calls that come back, every call of
\* upload_files ends, returning a list or raising; and it never starts more than
\* N * max_retries PUT attempts, N the number of files.
C26_UploadFilesTerminates ==
    /\ (pc = "uf_entry") ~> UploadEnded
    /\ [](TotalPuts <= Len(file_paths) * max_retries)

\* a call on a full batch has ended after every file used up all its attempts
C26_Witness ==
    /\ UploadEnded
    /\ Len(file_paths) = MaxFiles
    /\ max_retries = MaxRetries
    /\ TotalPuts = MaxFiles * MaxRetries

\* the files argument is a list of gs:// URI strings and nothing else
OnlyGsUris(files) ==
    /\ files.present
    /\ files.items # <<>>
    /\ \A i \in DOMAIN files.items : files.items[i].kind = "str" /\ files.items[i].gs

\* the caller passed pre-uploaded gs:// URIs as the files of a file request
GsFilesGiven ==
    /\ pc # "idle"
    /\ OnlyGsUris(content_args.files)
    /\ count_provided_inputs(content_args) = 1

\* C27: a file request whose files are all gs:// URI strings is handled without any
\* upload: building it raises no validation error, no signed URL is requested, no PUT is
\* made, and the payload submitted for it carries exactly those strings as gcsUris.
C27_GsUrisSubmittedWithoutUpload ==
    GsFilesGiven =>
        /\ error.type # "ValidationError"
        /\ url_requests = 0
        /\ put_log = {}
        /\ \A i \in DOMAIN submissions :
               submissions[i].gcsUris = GsUriStrings(content_args.files.items)

\* the payload field that carries the input content of each input type (client.py:188-212)
ContentFieldOf(input_type) ==
    CASE input_type = "text" -> "textContent"
      [] input_type = "url" -> "websiteUrl"
      [] input_type = "topic" -> "topic"
      [] input_type = "script" -> "scriptContent"
      [] input_type = "file" -> "gcsUris"

\* C28: every payload generate_audio submits carries exactly one input-content field,
\* the one of its inputType; none is submitted without its input content, also when the
\* text, topic or script given is the empty string.
C28_PayloadCarriesItsInputContent ==
    \A i \in DOMAIN submissions :
        submissions[i].fields = {ContentFieldOf(submissions[i].inputType)}

\* C29: a successful generate_audio of a file request submits one URI per entry of
\* input_content.files; no entry that validation accepted, raw bytes included, is left
\* out of the upload or of the payload.
C29_OneUriPerFilesEntry ==
    \A i \in DOMAIN submissions :
        submissions[i].inputType = "file" =>
            /\ Len(submissions[i].gcsUris) = Len(request.input_content.files.items)
            /\ Len(file_paths) = Len(request.input_content.files.items)

\* the files for which a PUT succeeded
PutSucceeded == {t \in DOMAIN put_results : "ok" \in Range(put_results[t])}

\* C30: whatever integer max_retries a direct caller passes, a file is counted as
\* completed, reported to the callback and given an entry in the returned list only if
\* a PUT for it succeeded, and every element of the returned list is a slot's gcsUri.
C30_CompletedOnlyAfterSuccessfulPut ==
    /\ completed_uploads <= Cardinality(PutSucceeded)
    /\ \A i \in DOMAIN cb_calls : cb_calls[i][1] <= Cardinality(PutSucceeded)
    /\ Len(gcs_uris) <= Cardinality(PutSucceeded)
    /\ Range(gcs_uris) \subseteq Range(SlotUris)
    /\ uf_outcome.status = "returned" =>
          /\ Len(uf_outcome.value) <= Cardinality(PutSucceeded)
          /\ Range(uf_outcome.value) \subseteq Range(SlotUris)

\* the paths whose upload ran out of attempts
ExhaustedPaths == {validated_files[t].path : t \in Exhausted}
\* every file of the batch was uploaded
AllUploaded == BatchStarted /\ \A t \in Tasks : futures[t].state = "finished_ok"

\* C31: upload_files raises "Upload failed for <path>" only if the upload of <path> ran
\* out of attempts; when every PUT succeeded it returns the N URIs whatever the progress
\* callback does, also when the callback raises.
C31_UploadFailedOnlyForExhaustedFile ==
    /\ (error.type = "PodfeedError" /\ error.kind = "upload_failed") =>
           error.path \in ExhaustedPaths
    /\ (UploadEnded /\ AllUploaded) =>
           /\ uf_outcome.status = "returned"
           /\ Len(uf_outcome.value) = Len(file_paths)

\* Calls of wait_for_completion.
NextWait ==
    \/ CallWaitForCompletion
    \/ WFC_LoopTest
    \/ WFC_Sleep
    \/ WFC_Poll
SpecWait == Init /\ [][NextWait]_vars

\* the statuses that end the polling
TerminalStatuses == {"completed", "failed"}
\* the call of wait_for_completion is still in its loop
Waiting == pc \in {"wfc_loop", "wfc_sleep", "wfc_poll"}
LastPoll == polls[Len(polls)]

\* C32: wait_for_completion returns a status only when a poll reported "completed";
\* it raises at the first poll that reports "failed" and polls no more; it keeps
\* polling while the status is anything else and raises the timeout error only once
\* the ceiling is reached with no terminal status; it sleeps poll_interval before every
\* poll, the first one included.
C32_PollsUntilTerminalOrCeiling ==
    /\ \A i \in 1..(Len(polls) - 1) : polls[i].status \notin TerminalStatuses \cup {None}
    /\ wait_outcome.status = "returned" =>
          /\ polls # <<>>
          /\ LastPoll.status = "completed"
          /\ wait_outcome.value = "completed"
    /\ (polls # <<>> /\ LastPoll.status = "completed") => wait_outcome.status = "returned"
    /\ (polls # <<>> /\ LastPoll.status = "failed") =>
          /\ wait_outcome.status = "raised"
          /\ error = PodfeedError("generation_failed", 0)
    /\ (polls # <<>> /\ LastPoll.status \notin TerminalStatuses \cup {None}) =>
          \/ Waiting
          \/ error = PodfeedError("timed_out", 0)
    /\ error = PodfeedError("timed_out", 0) =>
          /\ now - start_time >= timeout
          /\ \A i \in DOMAIN polls : polls[i].status \notin TerminalStatuses
    /\ Len(sleep_log) = Len(polls) + (IF pc = "wfc_poll" THEN 1 ELSE 0)
    /\ \A i \in DOMAIN sleep_log : sleep_log[i].secs = poll_interval
    /\ \A i \in DOMAIN polls : polls[i].at = sleep_log[i].at + poll_interval

\* a task reported as running at two polls and as completed at the third
C32_Witness ==
    /\ wait_outcome.status = "returned"
    /\ Len(polls) = 3
    /\ polls[1].status = "processing"
    /\ polls[2].status = "pending"
    /\ Len(sleep_log) = 3

\* C33: timeout is the longest wait_for_completion waits: no sleep is started and no
\* poll is issued once timeout units have passed since the call began, and the call
\* ends no later than timeout units after it began.
C33_NeverWaitsBeyondTimeout ==
    /\ \A i \in DOMAIN sleep_log : sleep_log[i].at - start_time < timeout
    /\ \A i \in DOMAIN polls : polls[i].at - start_time < timeout
    /\ wait_outcome.status # None => wait_outcome.at - start_time <= timeout
====
